---- MODULE Spec2Model ----
(***************************************************************************)
(* Model of aw-models/src/timeinterval.rs: the TimeInterval value type,    *)
(* its relational operations (gap, union, intersection, intersects), its   *)
(* textual form "<start-rfc3339>/<end-rfc3339>" (Display, new_from_string) *)
(* and its string deserializer (TimeIntervalVisitor).                      *)
(*                                                                         *)
(* An instant (DateTime<Utc>) is an integer number of milliseconds since   *)
(* 2000-01-01T00:00:00Z.  A string is a sequence of one-character strings, *)
(* so that splitting, formatting and parsing are computed character by     *)
(* character.  The RFC 3339 routines of the chrono library, which the      *)
(* source calls (to_rfc3339, parse_from_rfc3339, with_timezone), are       *)
(* modelled by what they do: field decomposition through the proleptic     *)
(* Gregorian calendar, and the RFC 3339 grammar with its numeric offset.   *)
(***************************************************************************)
EXTENDS Integers, Sequences, FiniteSets

VARIABLES a, b, text, shown, op, ret

vars == <<a, b, text, shown, op, ret>>

(***************************************************************************)
(* Bounds of the model.                                                    *)
(***************************************************************************)
\* instants are drawn from ticks 0..MaxTick, StepMs apart
MaxTick == 3
\* an input text has at most MaxSegments segments between '/' separators
MaxSegments == 3
\* an Event's duration is drawn from -MaxEventTicks..MaxEventTicks ticks
MaxEventTicks == 1

MsPerSecond == 1 * 1000
MsPerMinute == 60 * 1000
MsPerHour == 3600 * 1000
MsPerDay == 86400 * 1000

\* ticks are half a day apart; an odd tick falls on 12:34:56.789, so that the
\* sampled instants differ in date, hour, minute, second and fraction
TickMs(k) ==
    (k * 12 * MsPerHour) + ((k % 2) * ((34 * MsPerMinute) + (56 * MsPerSecond) + 789))

Instants == {TickMs(k) : k \in 0..MaxTick}
(***************************************************************************)
(* Option and Result values of the source.                                 *)
(***************************************************************************)
None == [tag |-> "None"]
Some(v) == [tag |-> "Some", v |-> v]
Ok(v) == [tag |-> "Ok", v |-> v]
Err(e) == [tag |-> "Err", e |-> e]
ParseError == "ParseError"

max(x, y) == IF x >= y THEN x ELSE y
min(x, y) == IF x <= y THEN x ELSE y

(***************************************************************************)
(* Characters and decimal fields.                                          *)
(***************************************************************************)
Digits == <<"0", "1", "2", "3", "4", "5", "6", "7", "8", "9">>

IsDigit(c) == \E i \in 1..10 : Digits[i] = c

DigitVal(c) == (CHOOSE i \in 1..10 : Digits[i] = c) - 1

DigitChar(n) == Digits[n + 1]

\* n written in exactly w decimal digits (zero padded)
RECURSIVE Pad(_, _)
Pad(n, w) == IF w = 0 THEN <<>> ELSE Pad(n \div 10, w - 1) \o <<DigitChar(n % 10)>>

AllDigits(s) == \A i \in 1..Len(s) : IsDigit(s[i])

\* value of a string of decimal digits
RECURSIVE Num(_)
Num(s) == IF s = <<>> THEN 0 ELSE (10 * Num(SubSeq(s, 1, Len(s) - 1))) + DigitVal(s[Len(s)])

(***************************************************************************)
(* Proleptic Gregorian calendar (days counted from 1970-01-01).            *)
(***************************************************************************)
IsLeapYear(y) == (y % 4 = 0) /\ ((y % 100 # 0) \/ (y % 400 = 0))

DaysInMonth(y, m) ==
    IF m = 2 THEN (IF IsLeapYear(y) THEN 29 ELSE 28)
    ELSE IF m \in {4, 6, 9, 11} THEN 30 ELSE 31

DaysFromCivil(y, m, d) ==
    LET yy == IF m <= 2 THEN y - 1 ELSE y
        era == yy \div 400
        yoe == yy - (era * 400)
        mp == IF m > 2 THEN m - 3 ELSE m + 9
        doy == (((153 * mp) + 2) \div 5) + (d - 1)
        doe == (yoe * 365) + (yoe \div 4) - (yoe \div 100) + doy
    IN  (era * 146097) + doe - 719468

CivilFromDays(z0) ==
    LET z == z0 + 719468
        era == z \div 146097
        doe == z - (era * 146097)
        yoe == (doe - (doe \div 1460) + (doe \div 36524) - (doe \div 146096)) \div 365
        doy == doe - ((365 * yoe) + (yoe \div 4) - (yoe \div 100))
        mp == ((5 * doy) + 2) \div 153
        d == doy - (((153 * mp) + 2) \div 5) + 1
        m == IF mp < 10 THEN mp + 3 ELSE mp - 9
        y == yoe + (era * 400) + (IF m <= 2 THEN 1 ELSE 0)
    IN  [year |-> y, month |-> m, day |-> d]

\* days from 1970-01-01 to 2000-01-01, the origin of the model's instants
DaysToY2K == DaysFromCivil(2000, 1, 1)

(***************************************************************************)
(* chrono: DateTime<Utc>::to_rfc3339.  The date and time fields of the     *)
(* instant in UTC, the fraction of a second when it is not zero, and the   *)
(* offset "+00:00".                                                        *)
(***************************************************************************)
to_rfc3339(t) ==
    LET c == CivilFromDays((t \div MsPerDay) + DaysToY2K)
        r == t % MsPerDay
        h == r \div MsPerHour
        mi == (r % MsPerHour) \div MsPerMinute
        sec == (r % MsPerMinute) \div MsPerSecond
        frac == r % MsPerSecond
    IN  Pad(c.year, 4) \o <<"-">> \o Pad(c.month, 2) \o <<"-">> \o Pad(c.day, 2)
        \o <<"T">> \o Pad(h, 2) \o <<":">> \o Pad(mi, 2) \o <<":">> \o Pad(sec, 2)
        \o (IF frac = 0 THEN <<>> ELSE <<".">> \o Pad(frac, 3))
        \o <<"+", "0", "0", ":", "0", "0">>

(***************************************************************************)
(* chrono: DateTime::parse_from_rfc3339.  Grammar                          *)
(*   YYYY-MM-DD (T|t) hh:mm:ss [. digits+] (Z | z | (+|-)hh:mm)            *)
(* with every field in range.  The result keeps the instant in UTC and the *)
(* offset that was written (a DateTime<FixedOffset>).                      *)
(***************************************************************************)
\* length of the longest prefix of s that consists of digits
RECURSIVE DigitPrefixLen(_)
DigitPrefixLen(s) ==
    IF s = <<>> \/ ~IsDigit(s[1]) THEN 0 ELSE 1 + DigitPrefixLen(Tail(s))

\* the characters that follow the seconds field: fraction and offset
AfterSeconds(s) == SubSeq(s, 20, Len(s))

FractionLen(s) ==
    LET rest == AfterSeconds(s)
    IN  IF rest # <<>> /\ rest[1] = "." THEN DigitPrefixLen(Tail(rest)) ELSE 0

HasFraction(s) == AfterSeconds(s) # <<>> /\ AfterSeconds(s)[1] = "."

OffsetText(s) ==
    LET rest == AfterSeconds(s)
    IN  IF HasFraction(s) THEN SubSeq(rest, 2 + FractionLen(s), Len(rest)) ELSE rest

\* the fraction in milliseconds: its first three digits, zero filled
FractionMs(s) ==
    LET d == SubSeq(AfterSeconds(s), 2, 1 + FractionLen(s))
        d3 == SubSeq(d \o <<"0", "0", "0">>, 1, 3)
    IN  IF HasFraction(s) THEN Num(d3) ELSE 0

IsOffset(o) ==
    \/ o = <<"Z">>
    \/ o = <<"z">>
    \/ /\ Len(o) = 6
       /\ o[1] \in {"+", "-"}
       /\ IsDigit(o[2]) /\ IsDigit(o[3])
       /\ o[4] = ":"
       /\ IsDigit(o[5]) /\ IsDigit(o[6])
       /\ Num(SubSeq(o, 2, 3)) <= 23
       /\ Num(SubSeq(o, 5, 6)) <= 59

\* the offset east of UTC in milliseconds
OffsetMs(o) ==
    IF Len(o) = 1 THEN 0
    ELSE (IF o[1] = "-" THEN -1 ELSE 1)
         * ((Num(SubSeq(o, 2, 3)) * MsPerHour) + (Num(SubSeq(o, 5, 6)) * MsPerMinute))

IsRfc3339(s) ==
    /\ Len(s) >= 20
    /\ AllDigits(SubSeq(s, 1, 4)) /\ s[5] = "-"
    /\ AllDigits(SubSeq(s, 6, 7)) /\ s[8] = "-"
    /\ AllDigits(SubSeq(s, 9, 10)) /\ s[11] \in {"T", "t"}
    /\ AllDigits(SubSeq(s, 12, 13)) /\ s[14] = ":"
    /\ AllDigits(SubSeq(s, 15, 16)) /\ s[17] = ":"
    /\ AllDigits(SubSeq(s, 18, 19))
    /\ Num(SubSeq(s, 6, 7)) \in 1..12
    /\ Num(SubSeq(s, 9, 10)) \in 1..DaysInMonth(Num(SubSeq(s, 1, 4)), Num(SubSeq(s, 6, 7)))
    /\ Num(SubSeq(s, 12, 13)) <= 23
    /\ Num(SubSeq(s, 15, 16)) <= 59
    \* second 60 (a leap second) is in the grammar; no enumerated text uses it
    /\ Num(SubSeq(s, 18, 19)) <= 60
    /\ (HasFraction(s) => FractionLen(s) >= 1)
    /\ IsOffset(OffsetText(s))

\* the date and time fields read as if they were UTC
LocalMs(s) ==
    ((DaysFromCivil(Num(SubSeq(s, 1, 4)), Num(SubSeq(s, 6, 7)), Num(SubSeq(s, 9, 10)))
        - DaysToY2K) * MsPerDay)
    + (Num(SubSeq(s, 12, 13)) * MsPerHour)
    + (Num(SubSeq(s, 15, 16)) * MsPerMinute)
    + (Num(SubSeq(s, 18, 19)) * MsPerSecond)
    + FractionMs(s)

parse_from_rfc3339(s) ==
    IF IsRfc3339(s)
    THEN Ok([utc |-> LocalMs(s) - OffsetMs(OffsetText(s)), offset |-> OffsetMs(OffsetText(s))])
    ELSE Err("chrono::ParseError")

\* chrono: DateTime<FixedOffset>::with_timezone(&Utc): the same instant in UTC
with_timezone_utc(dt) == dt.utc

(***************************************************************************)
(* TimeInterval                                                            *)
(***************************************************************************)
new(s, e) == [start |-> s, end |-> e]

start(self) == self.start

end(self) == self.end

duration(self) == self.end - self.start

\* str::split('/'): the segments between the separators, in order
RECURSIVE split(_, _)
split(s, sep) ==
    IF \A i \in 1..Len(s) : s[i] # sep
    THEN <<s>>
    ELSE LET i == CHOOSE k \in 1..Len(s) : s[k] = sep /\ \A j \in 1..(k - 1) : s[j] # sep
         IN  <<SubSeq(s, 1, i - 1)>> \o split(SubSeq(s, i + 1, Len(s)), sep)

\* new_from_string with the segment count checked by "fewer than two"
new_from_string_lenient(period) ==
    LET splits == split(period, "/")
    IN  IF Len(splits) < 2 THEN Err(ParseError)
        ELSE LET s == parse_from_rfc3339(splits[1])
                 e == parse_from_rfc3339(splits[2])
             IN  IF s.tag = "Err" THEN Err(ParseError)
                 ELSE IF e.tag = "Err" THEN Err(ParseError)
                 ELSE Ok(new(with_timezone_utc(s.v), with_timezone_utc(e.v)))

new_from_string(period) ==
    LET splits == split(period, "/")
    IN  IF Len(splits) # 2 THEN Err(ParseError)
        ELSE LET s == parse_from_rfc3339(splits[1])
                 e == parse_from_rfc3339(splits[2])
             IN  IF s.tag = "Err" THEN Err(ParseError)
                 ELSE IF e.tag = "Err" THEN Err(ParseError)
                 ELSE Ok(new(with_timezone_utc(s.v), with_timezone_utc(e.v)))

\* gap with non-strict comparisons: touching intervals get an empty gap
gap_nonstrict(self, other) ==
    IF self.end <= other.start THEN Some(new(self.end, other.start))
    ELSE IF other.end <= self.start THEN Some(new(other.end, self.start))
    ELSE None

\* gap whose second branch repeats the result of the first
gap_copied_branch(self, other) ==
    IF self.end < other.start THEN Some(new(self.end, other.start))
    ELSE IF other.end < self.start THEN Some(new(self.end, other.start))
    ELSE None

\* gap whose first branch builds the interval from the wrong pair of ends
gap_wrong_ends(self, other) ==
    IF self.end < other.start THEN Some(new(self.start, other.end))
    ELSE IF other.end < self.start THEN Some(new(other.end, self.start))
    ELSE None

gap(self, other) ==
    IF self.end < other.start THEN Some(new(self.end, other.start))
    ELSE IF other.end < self.start THEN Some(new(other.end, self.start))
    ELSE None

\* union that takes self's start instead of the earlier start
union_self_start(self, other) ==
    IF gap(self, other).tag = "Some" THEN None
    ELSE Some(new(self.start, max(self.end, other.end)))

\* union that joins the intervals whether or not a gap separates them
union_ignoring_gap(self, other) ==
    Some(new(min(self.start, other.start), max(self.end, other.end)))

union(self, other) ==
    IF gap(self, other).tag = "Some" THEN None
    ELSE Some(new(min(self.start, other.start), max(self.end, other.end)))

\* intersection that starts at the earlier start instead of the later one
intersection_min_start(self, other) ==
    LET last_start == min(self.start, other.start)
        first_end == min(self.end, other.end)
    IN  IF last_start < first_end THEN Some(new(last_start, first_end)) ELSE None

\* intersection with a non-strict comparison: touching intervals intersect
intersection_nonstrict(self, other) ==
    LET last_start == max(self.start, other.start)
        first_end == min(self.end, other.end)
    IN  IF last_start <= first_end THEN Some(new(last_start, first_end)) ELSE None

intersection(self, other) ==
    LET last_start == max(self.start, other.start)
        first_end == min(self.end, other.end)
    IN  IF last_start < first_end THEN Some(new(last_start, first_end)) ELSE None

intersects(self, other) == intersection(self, other).tag = "Some"

\* impl From<&Event> for TimeInterval
from(e) == new(e.timestamp, e.timestamp + e.duration)

\* to_rfc3339 with the fraction of a second left out
to_rfc3339_secs(t) ==
    LET full == to_rfc3339(t) IN SubSeq(full, 1, 19) \o SubSeq(full, Len(full) - 5, Len(full))

\* Display that writes whole seconds only
fmt_secs(self) == to_rfc3339_secs(self.start) \o <<"/">> \o to_rfc3339_secs(self.end)

\* impl fmt::Display for TimeInterval
fmt(self) == to_rfc3339(self.start) \o <<"/">> \o to_rfc3339(self.end)

\* TimeIntervalVisitor::expecting
expecting ==
    "an string in ISO timeinterval format (such as 2000-01-01T00:00:00+01:00/2001-02-02T01:01:01+01:00)"

\* serde: de::Error::invalid_value(Unexpected::Str(value), &self)
invalid_value(value, exp) == [kind |-> "invalid_value", unexpected |-> value, expected |-> exp]

\* visit_str that answers a parse failure with a default interval
visit_str_default(value) ==
    LET r == new_from_string(value)
    IN  IF r.tag = "Ok" THEN Ok(r.v) ELSE Ok(new(0, 0))

visit_str(value) ==
    LET r == new_from_string(value)
    IN  IF r.tag = "Ok" THEN Ok(r.v) ELSE Err(invalid_value(value, expecting))

\* Deserialize for TimeInterval: deserialize_str hands the string to the visitor
deserialize(value) == visit_str(value)

(***************************************************************************)
(* Inputs.                                                                 *)
(***************************************************************************)
\* every interval new can build from the sampled instants (no ordering check)
Intervals == {new(s, e) : s \in Instants, e \in Instants}

Durations == {k * 12 * MsPerHour : k \in (0 - MaxEventTicks)..MaxEventTicks}

Events == [timestamp : Instants, duration : Durations]

SegDate == <<"2", "0", "0", "0", "-", "0", "1", "-", "0">>
SegMidnight == <<"T", "0", "0", ":", "0", "0", ":", "0", "0">>
\* 2000-01-01T00:00:00Z
SegZulu == SegDate \o <<"1">> \o SegMidnight \o <<"Z">>
\* 2000-01-02t01:00:00.5+01:00, the instant 2000-01-02T00:00:00.5Z
SegOffset == SegDate \o <<"2", "t", "0", "1">> \o SubSeq(SegMidnight, 4, 9)
             \o <<".", "5", "+", "0", "1", ":", "0", "0">>
\* 2000-01-01T00:00:00, a timestamp that lacks its offset
SegNoOffset == SegDate \o <<"1">> \o SegMidnight
SegLetter == <<"a">>
SegEmpty == <<>>

Segments == {SegZulu, SegOffset, SegNoOffset, SegLetter, SegEmpty}

RECURSIVE join(_, _)
join(segs, sep) ==
    IF Len(segs) = 1 THEN segs[1] ELSE segs[1] \o <<sep>> \o join(Tail(segs), sep)

\* the input strings: 1..MaxSegments segments joined by '/'
Texts == {join(segs, "/") : segs \in UNION {[1..n -> Segments] : n \in 1..MaxSegments}}

(***************************************************************************)
(* The relational operations and accessors, applied to a pair of           *)
(* intervals a (self) and b (other).                                       *)
(***************************************************************************)
Init ==
    /\ a \in Intervals
    /\ b \in Intervals
    /\ text = <<>>
    /\ shown = FALSE
    /\ op = "init"
    /\ ret = None

New(s, e) ==
    /\ a' = new(s, e)
    /\ op' = "new"
    /\ ret' = a'
    /\ shown' = FALSE
    /\ UNCHANGED <<b, text>>

FromEvent(e) ==
    /\ a' = from(e)
    /\ op' = "from"
    /\ ret' = a'
    /\ shown' = FALSE
    /\ UNCHANGED <<b, text>>

Start ==
    /\ op' = "start"
    /\ ret' = start(a)
    /\ UNCHANGED <<a, b, text, shown>>

End ==
    /\ op' = "end"
    /\ ret' = end(a)
    /\ UNCHANGED <<a, b, text, shown>>

Duration ==
    /\ op' = "duration"
    /\ ret' = duration(a)
    /\ UNCHANGED <<a, b, text, shown>>

Gap ==
    /\ op' = "gap"
    /\ ret' = gap(a, b)
    /\ UNCHANGED <<a, b, text, shown>>

Union ==
    /\ op' = "union"
    /\ ret' = union(a, b)
    /\ UNCHANGED <<a, b, text, shown>>

Intersection ==
    /\ op' = "intersection"
    /\ ret' = intersection(a, b)
    /\ UNCHANGED <<a, b, text, shown>>

Intersects ==
    /\ op' = "intersects"
    /\ ret' = intersects(a, b)
    /\ UNCHANGED <<a, b, text, shown>>

Next ==
    \/ \E s \in Instants, e \in Instants : New(s, e)
    \/ \E e \in Events : FromEvent(e)
    \/ Start
    \/ End
    \/ Duration
    \/ Gap
    \/ Union
    \/ Intersection
    \/ Intersects

Spec == Init /\ [][Next]_vars

(***************************************************************************)
(* The textual operations, applied to an interval a and a string text.     *)
(***************************************************************************)
InitText ==
    /\ a \in Intervals
    /\ b = a
    /\ text \in Texts
    /\ shown = FALSE
    /\ op = "init"
    /\ ret = None

\* to_string: the Display form of a becomes the current string
ToString ==
    /\ text' = fmt(a)
    /\ shown' = TRUE
    /\ op' = "to_string"
    /\ ret' = text'
    /\ UNCHANGED <<a, b>>

NewFromString ==
    /\ op' = "new_from_string"
    /\ ret' = new_from_string(text)
    /\ UNCHANGED <<a, b, text, shown>>

Deserialize ==
    /\ op' = "deserialize"
    /\ ret' = deserialize(text)
    /\ UNCHANGED <<a, b, text, shown>>

NextText ==
    \/ ToString
    \/ NewFromString
    \/ Deserialize

SpecText == InitText /\ [][NextText]_vars

(***************************************************************************)
(* Properties of the relational operations (checked under Spec).           *)
(***************************************************************************)
WellOrdered(x) == x.start <= x.end

\* what the four relational operations return, as far as op is one of them
Returns(g, u, i, its) ==
    /\ (op = "gap" => ret = g)
    /\ (op = "union" => ret = u)
    /\ (op = "intersection" => ret = i)
    /\ (op = "intersects" => ret = its)

\* C3 as stated: for any instants t0, t1, t2, the intervals a = [t0,t1) and
\* b = [t1,t2) have no gap, no intersection, and the union [t0,t2).
C3_AnyInstants ==
    (a.end = b.start) => Returns(None, Some(new(a.start, b.end)), None, FALSE)

\* C3 amended: the same for instants t0 <= t1 <= t2.
C3_Adjacency ==
    (a.end = b.start /\ WellOrdered(a) /\ WellOrdered(b))
        => Returns(None, Some(new(a.start, b.end)), None, FALSE)

C3_Witness ==
    /\ a.end = b.start /\ a.start < a.end /\ b.start < b.end
    /\ op = "union"
    /\ ret = Some(new(a.start, b.end))

\* both branches of gap apply: a ends before b starts and b ends before a starts
BothBefore == a.end < b.start /\ b.end < a.start

\* C4 as stated: gap(a, b) = gap(b, a) for every pair of constructible
\* intervals, inverted ones included.
C4_GapSymmetricAll == (op = "gap") => (ret = gap(b, a))

\* C4 amended: gap(a, b) = gap(b, a) unless a ends before b starts and b ends
\* before a starts; that never happens when a and b both have start <= end.
C4_GapSymmetric ==
    /\ (op = "gap" /\ ~BothBefore) => (ret = gap(b, a))
    /\ (WellOrdered(a) /\ WellOrdered(b)) => ~BothBefore

C4_Witness ==
    /\ op = "gap"
    /\ WellOrdered(a) /\ WellOrdered(b)
    /\ b.end < a.start
    /\ ret = Some(new(b.end, a.start))

\* C5: union, intersection and intersects give the same result with their
\* arguments exchanged, for every pair of constructible intervals.
C5_Symmetric ==
    /\ (op = "union" => ret = union(b, a))
    /\ (op = "intersection" => ret = intersection(b, a))
    /\ (op = "intersects" => ret = intersects(b, a))

C5_Witness ==
    /\ op = "union"
    /\ ret.tag = "Some"
    /\ a.start > a.end
    /\ a.start # b.start /\ a.end # b.end

\* C6 as stated: intervals [t0,t1) and [t2,t3) with t1 < t2, in either
\* argument order, have the gap [t1,t2), no union and no intersection.
C6_DisjointAll ==
    /\ (a.end < b.start) => Returns(Some(new(a.end, b.start)), None, None, FALSE)
    /\ (b.end < a.start) => Returns(Some(new(b.end, a.start)), None, None, FALSE)

\* C6 amended: the same provided t0 <= t3 (which holds whenever both
\* intervals have start <= end).
C6_Disjoint ==
    /\ (a.end < b.start /\ a.start <= b.end)
            => Returns(Some(new(a.end, b.start)), None, None, FALSE)
    /\ (b.end < a.start /\ b.start <= a.end)
            => Returns(Some(new(b.end, a.start)), None, None, FALSE)
    /\ (WellOrdered(a) /\ WellOrdered(b) /\ a.end < b.start) => a.start <= b.end

C6_Witness ==
    /\ op = "gap"
    /\ a.start < a.end /\ a.end < b.start /\ b.start < b.end
    /\ ret = Some(new(a.end, b.start))

\* x = [t0,t2) and y = [t1,t3) with t0 < t1 < t2 < t3
Overlapping(x, y) == x.start < y.start /\ y.start < x.end /\ x.end < y.end

\* C7: intervals [t0,t2) and [t1,t3) with t0 < t1 < t2 < t3 have the
\* intersection [t1,t2), the union [t0,t3), no gap, and intersect.
C7_Overlap ==
    /\ Overlapping(a, b)
            => Returns(None, Some(new(a.start, b.end)), Some(new(b.start, a.end)), TRUE)
    /\ Overlapping(b, a)
            => Returns(None, Some(new(b.start, a.end)), Some(new(a.start, b.end)), TRUE)

C7_Witness ==
    /\ Overlapping(a, b)
    /\ op = "intersection"
    /\ ret = Some(new(b.start, a.end))

\* C9: an interval returned by gap or intersection has start < end, one
\* returned by union has start <= end, whatever the inputs; its duration is
\* never negative.
C9_ResultOrdered ==
    (op \in {"gap", "union", "intersection"} /\ ret.tag = "Some")
        => /\ (op = "union" => ret.v.start <= ret.v.end)
           /\ (op # "union" => ret.v.start < ret.v.end)
           /\ duration(ret.v) >= 0

C9_Witness ==
    /\ op = "union"
    /\ ret.tag = "Some"
    /\ a.start > a.end
    /\ b.start < b.end
    /\ ret.v.start < ret.v.end

\* C10: gap and intersection are never both present, union is present
\* exactly when gap is None, and intersects implies that union is present.
C10_Exclusive ==
    /\ (op = "gap" /\ ret.tag = "Some") => intersection(a, b) = None
    /\ (op = "intersection" /\ ret.tag = "Some") => gap(a, b) = None
    /\ (op = "union") => ((ret.tag = "Some") <=> (gap(a, b) = None))
    /\ (op = "intersects" /\ ret = TRUE) => union(a, b).tag = "Some"

C10_Witness ==
    /\ op = "union"
    /\ ret = None
    /\ gap(a, b).tag = "Some"
    /\ a.start > a.end

(***************************************************************************)
(* Properties of the textual operations (checked under SpecText).          *)
(***************************************************************************)
\* the positions of the separator in the current string
SlashPositions == {i \in 1..Len(text) : text[i] = "/"}

BeforeSlash == SubSeq(text, 1, (CHOOSE i \in SlashPositions : TRUE) - 1)

AfterSlash == SubSeq(text, (CHOOSE i \in SlashPositions : TRUE) + 1, Len(text))

\* exactly one separator, with an RFC 3339 timestamp on either side
WellFormedText ==
    /\ Cardinality(SlashPositions) = 1
    /\ IsRfc3339(BeforeSlash)
    /\ IsRfc3339(AfterSlash)

\* the instant an RFC 3339 timestamp denotes
InstantOf(s) == LocalMs(s) - OffsetMs(OffsetText(s))

\* C1: for every interval a built by new, new_from_string(to_string(a))
\* succeeds with the start, the end and the duration of a.
C1_RoundTrip ==
    (op = "new_from_string" /\ shown)
        => /\ ret.tag = "Ok"
           /\ start(ret.v) = start(a)
           /\ end(ret.v) = end(a)
           /\ duration(ret.v) = duration(a)

C1_Witness ==
    /\ op = "new_from_string"
    /\ shown
    /\ ret = Ok(a)
    /\ a.start % MsPerSecond # 0
    /\ a.end >= a.start + MsPerDay

\* C2: new_from_string returns ParseError unless the string has exactly two
\* segments that are both RFC 3339 timestamps, and then it returns the
\* interval from the first segment's instant to the second's.
C2_ParseOutcome ==
    (op = "new_from_string")
        => IF WellFormedText
           THEN ret = Ok(new(InstantOf(BeforeSlash), InstantOf(AfterSlash)))
           ELSE ret = Err(ParseError)

C2_Witness ==
    /\ op = "new_from_string"
    /\ ~shown
    /\ Cardinality(SlashPositions) = 1
    /\ IsRfc3339(BeforeSlash)
    /\ ~IsRfc3339(AfterSlash)
    /\ ret = Err(ParseError)

\* C8: deserializing a string gives the interval of new_from_string when
\* that succeeds, and otherwise an invalid-value error that carries the
\* string; never an interval.
C8_Deserialize ==
    (op = "deserialize")
        => LET parsed == new_from_string(text)
           IN  IF parsed.tag = "Ok"
               THEN ret = Ok(parsed.v)
               ELSE /\ ret.tag = "Err"
                    /\ ret.e.kind = "invalid_value"
                    /\ ret.e.unexpected = text

C8_Witness ==
    /\ op = "deserialize"
    /\ ~shown
    /\ Cardinality(SlashPositions) = 2
    /\ ret.tag = "Err"
    /\ ret.e.unexpected = text

====
